---- MODULE Spec2Model ----
(***************************************************************************)
(* Model of the image-cdn edge function: query parameter validation        *)
(* (utils/params.ts), cache key derivation and image transformation        *)
(* (utils/image.ts, utils/cache-key.ts), URL signing (utils/security.ts)   *)
(* and the request handler (index.ts).                                     *)
(*                                                                         *)
(* JavaScript strings are sequences of one-character strings.  A nullable  *)
(* value is the empty tuple (null) or a one-element tuple holding it.      *)
(***************************************************************************)
EXTENDS Integers, Sequences, FiniteSets, TLC

VARIABLES
    secret,     \* IMAGE_CDN_SIGNING_SECRET, null when the variable is unset
    limits,     \* ValidationLimits read from the environment
    cache,      \* content of the cache bucket: cache key -> stored object
    lastUp,     \* history: per cache key, the data of the last upload call the storage served
    received,   \* history: number of requests received so far
    pc,         \* per worker: the place of its handler invocation
    req,        \* per worker: the request (method, searchParams)
    nth,        \* history, per worker: the ordinal of its request
    alone,      \* history, per worker: no other invocation overlapped with it so far
    config,     \* per worker: the TransformConfig of parseQueryParams, or null
    cacheKey,   \* per worker: buildCacheKey(config), or null
    originBytes,\* per worker: the downloaded origin object, or null
    transformed,\* per worker: the result of transformImage, or null
    calls,      \* history, per worker: how often each external call was made
    fault,      \* history, per worker: some storage call or the transform failed
    dl,         \* history, per worker: outcome of the origin download call
    upl,        \* history, per worker: outcome of the cache upload call
    resp,       \* per worker: the Response returned, or null
    pin,        \* input of the pure function under check
    pout        \* its result, or null

vars == <<secret, limits, cache, lastUp, received, pc, req, nth, alone, config,
          cacheKey, originBytes, transformed, calls, fault, dl, upl, resp, pin, pout>>

handlerVars == <<secret, limits, cache, lastUp, received, pc, req, nth, alone, config,
                 cacheKey, originBytes, transformed, calls, fault, dl, upl, resp>>

pureVars == <<pin, pout>>

----------------------------------------------------------------------------
(* JavaScript values *)

None == <<>>

Some(x) == <<x>>

IsSome(o) == o # <<>>

Val(o) == o[1]

\* !value for a string | null: null and "" are falsy
Truthy(o) == IsSome(o) /\ Val(o) # <<>>

Digits == <<"0", "1", "2", "3", "4", "5", "6", "7", "8", "9">>

IsDigit(c) == \E i \in 1..10 : Digits[i] = c

DigitVal(c) == (CHOOSE i \in 1..10 : Digits[i] = c) - 1

WhiteSpace == {" "}

RECURSIVE TrimStart(_)
TrimStart(s) ==
    IF s # <<>> /\ Head(s) \in WhiteSpace THEN TrimStart(Tail(s)) ELSE s

RECURSIVE TrimEnd(_)
TrimEnd(s) ==
    IF s # <<>> /\ s[Len(s)] \in WhiteSpace THEN TrimEnd(SubSeq(s, 1, Len(s) - 1)) ELSE s

\* String.prototype.trim
Trim(s) == TrimEnd(TrimStart(s))

\* String.prototype.includes
Includes(s, sub) ==
    \E i \in 1..(Len(s) - Len(sub) + 1) : SubSeq(s, i, i + Len(sub) - 1) = sub

\* String.prototype.startsWith
StartsWith(s, pre) == Len(s) >= Len(pre) /\ SubSeq(s, 1, Len(pre)) = pre

\* value of the longest prefix of decimal digits, most significant first
RECURSIVE DigitsValue(_, _)
DigitsValue(s, acc) ==
    IF s # <<>> /\ IsDigit(Head(s))
    THEN DigitsValue(Tail(s), 10 * acc + DigitVal(Head(s)))
    ELSE acc

\* parseInt(value, 10): leading white space and a sign are skipped, the longest
\* prefix of digits is converted and the rest is ignored; NaN without a digit
parseInt(value) ==
    LET t == TrimStart(value)
        neg == t # <<>> /\ Head(t) = "-"
        u == IF t # <<>> /\ Head(t) \in {"-", "+"} THEN Tail(t) ELSE t
    IN  IF u = <<>> \/ ~IsDigit(Head(u))
        THEN [nan |-> TRUE, n |-> 0]
        ELSE [nan |-> FALSE, n |-> IF neg THEN 0 - DigitsValue(u, 0) ELSE DigitsValue(u, 0)]

\* `${n}` for a non-negative integer
RECURSIVE ToDec(_)
ToDec(n) == IF n < 10 THEN <<Digits[n + 1]>> ELSE ToDec(n \div 10) \o <<Digits[(n % 10) + 1]>>

UpperCase == <<"J", "P", "G", "E", "N">>

LowerCase == <<"j", "p", "g", "e", "n">>

LowerChar(c) ==
    IF \E i \in 1..Len(UpperCase) : UpperCase[i] = c
    THEN LowerCase[CHOOSE i \in 1..Len(UpperCase) : UpperCase[i] = c]
    ELSE c

\* String.prototype.toLowerCase
ToLowerCase(s) == [i \in 1..Len(s) |-> LowerChar(s[i])]

----------------------------------------------------------------------------
(* utils/params.ts *)

cover == <<"c", "o", "v", "e", "r">>

contain == <<"c", "o", "n", "t", "a", "i", "n">>

fill == <<"f", "i", "l", "l">>

jpeg == <<"j", "p", "e", "g">>

png == <<"p", "n", "g">>

center == <<"c", "e", "n", "t", "e", "r">>

top == <<"t", "o", "p">>

bottom == <<"b", "o", "t", "t", "o", "m">>

left == <<"l", "e", "f", "t">>

right == <<"r", "i", "g", "h", "t">>

FitMode == {cover, contain, fill}

ImageFormat == {jpeg, png}

CropPosition == {center, top, bottom, left, right}

Ok(v) == [ok |-> TRUE, v |-> v]

Err(m) == [ok |-> FALSE, v |-> m]

\* URLSearchParams.get: the value of the first pair with this name, or null
RECURSIVE Get(_, _)
Get(sp, name) ==
    IF sp = <<>> THEN None
    ELSE IF Head(sp)[1] = name THEN Some(Head(sp)[2])
    ELSE Get(Tail(sp), name)

RECURSIVE StripLeadingSlashes(_)
StripLeadingSlashes(s) ==
    IF s # <<>> /\ Head(s) = "/" THEN StripLeadingSlashes(Tail(s)) ELSE s

RECURSIVE StripTrailingSlashes(_)
StripTrailingSlashes(s) ==
    IF s # <<>> /\ s[Len(s)] = "/"
    THEN StripTrailingSlashes(SubSeq(s, 1, Len(s) - 1))
    ELSE s

\* variant: the test for ".." is left out
sanitizePathNoTraversalTest(path) ==
    LET sanitized == StripTrailingSlashes(StripLeadingSlashes(Trim(path)))
    IN  IF sanitized = <<>>
        THEN Err("Invalid path: path cannot be empty")
        ELSE Ok(sanitized)

sanitizePath(path) ==
    LET sanitized == StripTrailingSlashes(StripLeadingSlashes(Trim(path)))
    IN  IF Includes(sanitized, <<".", ".">>) \/ StartsWith(sanitized, <<"/">>)
        THEN Err("Invalid path: path traversal detected")
        ELSE IF sanitized = <<>>
        THEN Err("Invalid path: path cannot be empty")
        ELSE Ok(sanitized)

parseIntParam(value, min, max) ==
    IF ~Truthy(value) THEN Ok(None)
    ELSE LET parsed == parseInt(Val(value))
         IN  IF parsed.nan THEN Err("Invalid number")
             ELSE IF parsed.n < min \/ parsed.n > max THEN Err("Number out of range")
             ELSE Ok(Some(parsed.n))

parseFitMode(value) ==
    IF ~Truthy(value) THEN Ok(cover)
    ELSE IF Val(value) \notin FitMode THEN Err("Invalid fit mode")
    ELSE Ok(Val(value))

parseFormat(value) ==
    IF ~Truthy(value) THEN Ok(None)
    ELSE IF Val(value) \notin ImageFormat THEN Err("Invalid format")
    ELSE Ok(value)

parseCropPosition(value) ==
    IF ~Truthy(value) THEN Ok(center)
    ELSE IF Val(value) \notin CropPosition THEN Err("Invalid crop position")
    ELSE Ok(Val(value))

HexDigits == {"0", "1", "2", "3", "4", "5", "6", "7", "8", "9",
              "a", "b", "c", "d", "e", "f", "A", "B", "C", "D", "E", "F"}

parseBackground(value) ==
    IF ~Truthy(value) THEN Ok(None)
    ELSE IF ~(Len(Val(value)) = 6 /\ \A i \in 1..6 : Val(value)[i] \in HexDigits)
    THEN Err("Invalid background color")
    ELSE Ok(value)

parseQueryParams(searchParams, lim) ==
    LET bucket == IF Truthy(Get(searchParams, "bucket"))
                  THEN Val(Get(searchParams, "bucket")) ELSE lim.defaultBucket
        rawPath == Get(searchParams, "path")
        path == sanitizePath(Val(rawPath))
        width == parseIntParam(Get(searchParams, "w"), 1, lim.maxWidth)
        height == parseIntParam(Get(searchParams, "h"), 1, lim.maxHeight)
        fit == parseFitMode(Get(searchParams, "fit"))
        format == parseFormat(Get(searchParams, "format"))
        q == parseIntParam(Get(searchParams, "q"), 1, 100)
        background == parseBackground(Get(searchParams, "bg"))
        crop == parseCropPosition(Get(searchParams, "crop"))
    IN  IF ~Truthy(rawPath) THEN Err("Missing required parameter: path")
        ELSE IF ~path.ok THEN path
        ELSE IF ~width.ok THEN width
        ELSE IF ~height.ok THEN height
        ELSE IF ~fit.ok THEN fit
        ELSE IF ~format.ok THEN format
        ELSE IF ~q.ok THEN q
        ELSE IF ~background.ok THEN background
        ELSE IF ~crop.ok THEN crop
        ELSE Ok([bucket |-> bucket,
                 path |-> path.v,
                 width |-> width.v,
                 height |-> height.v,
                 fit |-> fit.v,
                 format |-> format.v,
                 quality |-> IF IsSome(q.v) THEN Val(q.v) ELSE lim.defaultQuality,
                 background |-> background.v,
                 crop |-> crop.v,
                 noCache |-> Get(searchParams, "no_cache") = Some(<<"1">>)])

----------------------------------------------------------------------------
(* utils/cache-key.ts *)

getExtensionFromFormat(format) == IF format = jpeg THEN <<"j", "p", "g">> ELSE png

getMimeType(format) == <<"i", "m", "a", "g", "e", "/">> \o format

\* index of the last "." of s, 0 when it has none
LastDot(s) ==
    IF \E i \in 1..Len(s) : s[i] = "."
    THEN CHOOSE i \in 1..Len(s) : s[i] = "." /\ \A j \in (i + 1)..Len(s) : s[j] # "."
    ELSE 0

\* path.split(".").pop()?.toLowerCase(), then the switch on it
inferFormatFromPath(path) ==
    LET ext == ToLowerCase(SubSeq(path, LastDot(path) + 1, Len(path)))
    IN  IF ext \in {<<"j", "p", "g">>, jpeg} THEN jpeg
        ELSE IF ext = png THEN png
        ELSE jpeg

\* path.replace(/\.[^.]+$/, "")
PathWithoutExt(path) ==
    IF LastDot(path) > 0 /\ LastDot(path) < Len(path)
    THEN SubSeq(path, 1, LastDot(path) - 1)
    ELSE path

\* Array.prototype.join
RECURSIVE Join(_, _)
Join(parts, sep) ==
    IF parts = <<>> THEN <<>>
    ELSE IF Len(parts) = 1 THEN parts[1]
    ELSE parts[1] \o sep \o Join(Tail(parts), sep)

\* truthiness of a number | null
TruthyNum(o) == IsSome(o) /\ Val(o) # 0

HardCodedQuality == 80

\* if (config.width) parts.push(`w=${config.width}`)
WidthPart(cfg) ==
    IF TruthyNum(cfg.width) THEN <<<<"w", "=">> \o ToDec(Val(cfg.width))>> ELSE <<>>

\* if (config.height) parts.push(`h=${config.height}`)
HeightPart(cfg) ==
    IF TruthyNum(cfg.height) THEN <<<<"h", "=">> \o ToDec(Val(cfg.height))>> ELSE <<>>

\* if (config.fit !== "cover" && (config.width || config.height))
FitPart(cfg) ==
    IF cfg.fit # cover /\ (TruthyNum(cfg.width) \/ TruthyNum(cfg.height))
    THEN <<<<"f", "i", "t", "=">> \o cfg.fit>> ELSE <<>>

\* variant: an explicit format is always part of the key
FormatPartAlways(cfg, originalFormat) ==
    IF Truthy(cfg.format) THEN <<<<"f", "m", "t", "=">> \o Val(cfg.format)>> ELSE <<>>

\* if (config.format && config.format !== originalFormat)
FormatPart(cfg, originalFormat) ==
    IF Truthy(cfg.format) /\ Val(cfg.format) # originalFormat
    THEN <<<<"f", "m", "t", "=">> \o Val(cfg.format)>> ELSE <<>>

\* if (config.quality !== 80)
QualityPart(cfg) ==
    IF cfg.quality # HardCodedQuality THEN <<<<"q", "=">> \o ToDec(cfg.quality)>> ELSE <<>>

\* if (config.background)
BackgroundPart(cfg) ==
    IF Truthy(cfg.background) THEN <<<<"b", "g", "=">> \o Val(cfg.background)>> ELSE <<>>

\* if (config.crop !== "center" && (config.width || config.height))
CropPart(cfg) ==
    IF cfg.crop # center /\ (TruthyNum(cfg.width) \/ TruthyNum(cfg.height))
    THEN <<<<"c", "r", "o", "p", "=">> \o cfg.crop>> ELSE <<>>

buildCacheKey(cfg) ==
    LET originalFormat == inferFormatFromPath(cfg.path)
        outputFormat == IF Truthy(cfg.format) THEN Val(cfg.format) ELSE originalFormat
        parts == <<PathWithoutExt(cfg.path)>> \o WidthPart(cfg) \o HeightPart(cfg)
                 \o FitPart(cfg) \o FormatPart(cfg, originalFormat) \o QualityPart(cfg)
                 \o BackgroundPart(cfg) \o CropPart(cfg)
    IN  Join(parts, <<"_", "_">>) \o <<".">> \o getExtensionFromFormat(outputFormat)

----------------------------------------------------------------------------
(* utils/image.ts *)

\* variant: Math.floor in place of Math.round
RoundDown(p, q) == p \div q

\* Math.round(p / q) for q > 0: the nearest integer, a half rounds up
Round(p, q) == (2 * p + q) \div (2 * q)

calculateDimensions(originalWidth, originalHeight, targetWidth, targetHeight, fit) ==
    IF ~TruthyNum(targetWidth) /\ ~TruthyNum(targetHeight)
    THEN [width |-> originalWidth, height |-> originalHeight, shouldCrop |-> FALSE]
    ELSE IF ~TruthyNum(targetWidth)
    THEN [width |-> Round(Val(targetHeight) * originalWidth, originalHeight),
          height |-> Val(targetHeight), shouldCrop |-> FALSE]
    ELSE IF ~TruthyNum(targetHeight)
    THEN [width |-> Val(targetWidth),
          height |-> Round(Val(targetWidth) * originalHeight, originalWidth),
          shouldCrop |-> FALSE]
    ELSE LET tw == Val(targetWidth)
             th == Val(targetHeight)
             \* aspectRatio > targetRatio
             wider == originalWidth * th > tw * originalHeight
         IN  IF fit = fill
             THEN [width |-> tw, height |-> th, shouldCrop |-> FALSE]
             ELSE IF fit = contain
             THEN IF wider
                  THEN [width |-> tw, height |-> Round(tw * originalHeight, originalWidth),
                        shouldCrop |-> FALSE]
                  ELSE [width |-> Round(th * originalWidth, originalHeight), height |-> th,
                        shouldCrop |-> FALSE]
             ELSE IF wider
                  THEN [width |-> Round(th * originalWidth, originalHeight), height |-> th,
                        shouldCrop |-> TRUE]
                  ELSE [width |-> tw, height |-> Round(tw * originalHeight, originalWidth),
                        shouldCrop |-> TRUE]

\* An Image is its pixel size and how its pixels came about: the decoded source,
\* the rectangle cut by the last crop and the colour composited under it.
decodeImage(imageData) ==
    [src |-> imageData, width |-> imageData.width, height |-> imageData.height,
     cropAt |-> None, bg |-> None]

\* Image.resize
Resize(image, width, height) == [image EXCEPT !.width = width, !.height = height]

\* variant: the crop records its origin and leaves the raster uncut
CropKeepSize(image, x, y, width, height) ==
    [image EXCEPT !.cropAt = Some(<<x, y>>)]

\* Image.crop
Crop(image, x, y, width, height) ==
    [image EXCEPT !.width = width, !.height = height, !.cropAt = Some(<<x, y>>)]

applyCrop(image, targetWidth, targetHeight, position) ==
    LET width == image.width
        height == image.height
        cx == Round(width - targetWidth, 2)
        cy == Round(height - targetHeight, 2)
        x == IF position \in {center, top, bottom} THEN cx
             ELSE IF position = right THEN width - targetWidth ELSE 0
        y == IF position \in {center, left, right} THEN cy
             ELSE IF position = bottom THEN height - targetHeight ELSE 0
    IN  IF width = targetWidth /\ height = targetHeight THEN image
        ELSE Crop(image, x, y, targetWidth, targetHeight)

\* new Image(image.width, image.height), fill(color), composite(image)
applyBackground(image, bgColor) ==
    IF ~Truthy(bgColor) THEN image
    ELSE [image EXCEPT !.bg = bgColor]

\* encodeJPEG(quality) and encodePNG(): only the lossy encoder reads the quality
encodeImage(image, format, quality) ==
    [image |-> image, format |-> format, quality |-> IF format = jpeg THEN Some(quality) ELSE None]

transformImage(imageData, cfg, originalFormat) ==
    LET image0 == decodeImage(imageData)
        dim == calculateDimensions(image0.width, image0.height, cfg.width, cfg.height, cfg.fit)
        image1 == IF dim.width # image0.width \/ dim.height # image0.height
                  THEN Resize(image0, dim.width, dim.height) ELSE image0
        image2 == IF dim.shouldCrop /\ TruthyNum(cfg.width) /\ TruthyNum(cfg.height)
                  THEN applyCrop(image1, Val(cfg.width), Val(cfg.height), cfg.crop)
                  ELSE image1
        image3 == IF cfg.fit \in {contain, fill} /\ Truthy(cfg.background)
                  THEN applyBackground(image2, cfg.background) ELSE image2
        outputFormat == IF Truthy(cfg.format) THEN Val(cfg.format) ELSE originalFormat
    IN  [data |-> encodeImage(image3, outputFormat, cfg.quality), format |-> outputFormat]

----------------------------------------------------------------------------
(* utils/response.ts *)

imageResponse(imageData, format) ==
    [status |-> 200, body |-> Some(imageData), contentType |-> getMimeType(format)]

errorResponse(status) ==
    [status |-> status, body |-> None,
     contentType |-> <<"a", "p", "p", "l", "i", "c", "a", "t", "i", "o", "n", "/", "j", "s", "o", "n">>]

MethodNotAllowed == errorResponse(405)

\* variant: a validation failure is reported as an internal error
BadRequestAsInternalError == errorResponse(500)

BadRequest == errorResponse(400)

NotFound == errorResponse(404)

InternalError == errorResponse(500)

Forbidden == errorResponse(403)

----------------------------------------------------------------------------
(* utils/security.ts *)

\* the application/x-www-form-urlencoded byte serializer, on the characters used here
EncodeChar(c) ==
    CASE c = " " -> <<"+">>
      [] c = "/" -> <<"%", "2", "F">>
      [] c = "=" -> <<"%", "3", "D">>
      [] c = "&" -> <<"%", "2", "6">>
      [] c = "+" -> <<"%", "2", "B">>
      [] c = "%" -> <<"%", "2", "5">>
      [] c = "|" -> <<"%", "7", "C">>
      [] OTHER -> <<c>>

RECURSIVE EncodeString(_)
EncodeString(s) == IF s = <<>> THEN <<>> ELSE EncodeChar(Head(s)) \o EncodeString(Tail(s))

\* URLSearchParams.toString: name=value pairs joined by "&"; a parameter name is
\* one token of the string
ParamsToString(sp) ==
    Join([i \in 1..Len(sp) |-> <<sp[i][1], "=">> \o EncodeString(sp[i][2])], <<"&">>)

\* URLSearchParams.delete: every pair with this name goes
RECURSIVE Delete(_, _)
Delete(sp, name) ==
    IF sp = <<>> THEN <<>>
    ELSE IF Head(sp)[1] = name THEN Delete(Tail(sp), name)
    ELSE <<Head(sp)>> \o Delete(Tail(sp), name)

\* HMAC-SHA256 as an ideal keyed hash: different (key, message) give different tags
HmacSha256(key, message) == <<"hmac-sha256">> \o key \o <<"|">> \o message

\* bytes to lower-case hex, two digits a byte
HexLower(bytes) == <<"hex">> \o bytes

generateSignature(params, sec) == HexLower(HmacSha256(sec, params))

\* variant: the token is left among the parameters that are signed
verifySignatureKeepToken(searchParams, sec) ==
    LET token == Get(searchParams, "token")
    IN  IF ~Truthy(token) THEN FALSE
        ELSE Val(token) = generateSignature(ParamsToString(searchParams), sec)

verifySignature(searchParams, sec) ==
    LET token == Get(searchParams, "token")
    IN  IF ~Truthy(token) THEN FALSE
        ELSE Val(token) = generateSignature(ParamsToString(Delete(searchParams, "token")), sec)

\* variant: the result of the verification is not looked at
checkSignatureOff(searchParams, signingSecret) == TRUE

\* TRUE when checkSignature returns, FALSE when it throws
checkSignature(searchParams, signingSecret) ==
    IF ~Truthy(signingSecret) THEN TRUE
    ELSE verifySignature(searchParams, Val(signingSecret))

----------------------------------------------------------------------------
(* The environment of index.ts: configuration, requests, storage *)

Workers == {1, 2}

MaxRequests == 2

DefaultMaxWidth == 2000

DefaultMaxHeight == 2000

DefaultQuality == 80

DefaultLimits ==
    [maxWidth |-> DefaultMaxWidth, maxHeight |-> DefaultMaxHeight,
     defaultQuality |-> DefaultQuality,
     defaultBucket |-> <<"i", "m", "a", "g", "e", "s">>]

Secret1 == <<"k", "e", "y">>

a_jpg == <<"a", ".", "j", "p", "g">>

a_jpeg == <<"a", ".", "j", "p", "e", "g">>

a_png == <<"a", ".", "p", "n", "g">>

up_a_jpg == <<".", ".", "/", "a", ".", "j", "p", "g">>

ffffff == <<"f", "f", "f", "f", "f", "f">>

\* path=a.jpg&w=4
B1 == << <<"path", a_jpg>>, <<"w", <<"4">>>> >>

\* path=a.jpg&w=4&no_cache=1
B2 == B1 \o << <<"no_cache", <<"1">>>> >>

\* path=a.jpeg&w=4
B3 == << <<"path", a_jpeg>>, <<"w", <<"4">>>> >>

\* path=../a.jpg
B5 == << <<"path", up_a_jpg>> >>

\* w=4, no path
B6 == << <<"w", <<"4">>>> >>

\* the token a client holding Secret1 computes for these parameters
TokenFor(sp) == <<"token", generateSignature(ParamsToString(sp), Secret1)>>

\* signed as the README's client does: the token comes last
S1 == B1 \o <<TokenFor(B1)>>

\* signed, the token first
S2 == <<TokenFor(B5)>> \o B5

\* signed as B1, the path changed afterwards
S3 == B5 \o <<TokenFor(B1)>>

\* an empty token
S4 == B6 \o << <<"token", <<>>>> >>

Requests ==
    [method : {"GET"}, searchParams : {B1, B2, B3, B5, B6, S1, S2, S3, S4}]
    \cup [method : {"POST"}, searchParams : {S3}]

\* what an origin object decodes to: ImageScript reads the size from the data
OriginVersions == {1, 2}

NaturalWidth(ver) == IF ver = 1 THEN 1000 ELSE 800

NaturalHeight(ver) == IF ver = 1 THEN 800 ELSE 1000

OriginObject(bucket, path, ver) ==
    [bucket |-> bucket, path |-> path, ver |-> ver,
     width |-> NaturalWidth(ver), height |-> NaturalHeight(ver)]

\* variant: the object is stored under another name than the one given
StorageUploadOtherKey(store, key, data, upsert) ==
    [k \in DOMAIN store \cup {<<"x">> \o key} |->
        IF k = <<"x">> \o key THEN data ELSE store[k]]

\* supabase.storage.from(CACHE_BUCKET).upload(key, data, {upsert}): without upsert
\* an existing object is kept and the call returns an error
StorageUpload(store, key, data, upsert) ==
    IF upsert \/ key \notin DOMAIN store
    THEN [k \in DOMAIN store \cup {key} |-> IF k = key THEN data ELSE store[k]]
    ELSE store

\* what the cache download can give: the stored object, an error result (the
\* key is absent, or the read failed), no data, an exception, or an exception
\* while the body is read
LookupOutcomes(store, key) ==
    (IF key \in DOMAIN store THEN {"data"} ELSE {}) \cup {"error", "empty", "throw", "bodyThrow"}

\* what the origin download can give
DownloadOutcomes ==
    {[kind |-> k, ver |-> 0] : k \in {"error", "empty", "bodyThrow"}}
    \cup {[kind |-> "data", ver |-> v] : v \in OriginVersions}

UploadOutcomes == {"ok", "error", "throw"}

NoCalls == [lookup |-> 0, download |-> 0, transform |-> 0, upload |-> 0]

Idle(w) == pc[w] \in {"idle", "done"}

----------------------------------------------------------------------------
(* index.ts: the request handler, one action per await *)

Init ==
    /\ secret \in {None, Some(Secret1)}
    /\ limits = DefaultLimits
    /\ cache = [k \in {} |-> None]
    /\ lastUp = [k \in {} |-> None]
    /\ received = 0
    /\ pc = [w \in Workers |-> "idle"]
    /\ req = [w \in Workers |-> None]
    /\ nth = [w \in Workers |-> 0]
    /\ alone = [w \in Workers |-> TRUE]
    /\ config = [w \in Workers |-> None]
    /\ cacheKey = [w \in Workers |-> None]
    /\ originBytes = [w \in Workers |-> None]
    /\ transformed = [w \in Workers |-> None]
    /\ calls = [w \in Workers |-> NoCalls]
    /\ fault = [w \in Workers |-> FALSE]
    /\ dl = [w \in Workers |-> "none"]
    /\ upl = [w \in Workers |-> "none"]
    /\ resp = [w \in Workers |-> None]
    /\ pin = None
    /\ pout = None

\* variant: the handler ends without a response
ReturnNothing(w, response) ==
    /\ resp' = [resp EXCEPT ![w] = None]
    /\ pc' = [pc EXCEPT ![w] = "done"]

\* the handler returns this response
Return(w, response) ==
    /\ resp' = [resp EXCEPT ![w] = Some(response)]
    /\ pc' = [pc EXCEPT ![w] = "done"]

\* serve() calls the handler; the method check runs before the first await
Receive(w) ==
    /\ Idle(w)
    /\ received < MaxRequests
    /\ \E r \in Requests :
        /\ req' = [req EXCEPT ![w] = Some(r)]
        /\ IF r.method # "GET"
           THEN Return(w, MethodNotAllowed)
           ELSE /\ pc' = [pc EXCEPT ![w] = "signature"]
                /\ resp' = [resp EXCEPT ![w] = None]
    /\ received' = received + 1
    /\ nth' = [nth EXCEPT ![w] = received + 1]
    /\ alone' = [v \in Workers |->
                    IF v = w THEN \A u \in Workers \ {w} : Idle(u)
                    ELSE alone[v] /\ Idle(v)]
    /\ config' = [config EXCEPT ![w] = None]
    /\ cacheKey' = [cacheKey EXCEPT ![w] = None]
    /\ originBytes' = [originBytes EXCEPT ![w] = None]
    /\ transformed' = [transformed EXCEPT ![w] = None]
    /\ calls' = [calls EXCEPT ![w] = NoCalls]
    /\ fault' = [fault EXCEPT ![w] = FALSE]
    /\ dl' = [dl EXCEPT ![w] = "none"]
    /\ upl' = [upl EXCEPT ![w] = "none"]
    /\ UNCHANGED <<secret, limits, cache, lastUp, pin, pout>>

\* await checkSignature(searchParams, IMAGE_CDN_SIGNING_SECRET)
CheckSignature(w) ==
    /\ pc[w] = "signature"
    /\ IF checkSignature(Val(req[w]).searchParams, secret)
       THEN /\ pc' = [pc EXCEPT ![w] = "validate"]
            /\ UNCHANGED resp
       ELSE Return(w, Forbidden)
    /\ UNCHANGED <<secret, limits, cache, lastUp, received, req, nth, alone, config,
                   cacheKey, originBytes, transformed, calls, fault, dl, upl, pin, pout>>

\* variant: no_cache is not looked at
LookupWantedAlways(cfg) == TRUE

\* if (!config.noCache)
LookupWanted(cfg) == ~cfg.noCache

\* parseQueryParams, buildCacheKey, and the choice of the first storage call
ParseParams(w) ==
    /\ pc[w] = "validate"
    /\ \E parsed \in {parseQueryParams(Val(req[w]).searchParams, limits)} :
           IF ~parsed.ok
           THEN /\ Return(w, BadRequest)
                /\ UNCHANGED <<config, cacheKey>>
           ELSE /\ config' = [config EXCEPT ![w] = Some(parsed.v)]
                /\ cacheKey' = [cacheKey EXCEPT ![w] = Some(buildCacheKey(parsed.v))]
                /\ pc' = [pc EXCEPT ![w] =
                            IF LookupWanted(parsed.v) THEN "lookup" ELSE "download"]
                /\ UNCHANGED resp
    /\ UNCHANGED <<secret, limits, cache, lastUp, received, req, nth, alone,
                   originBytes, transformed, calls, fault, dl, upl, pin, pout>>

\* variant: the cache download is outside the try block
LookupResultThrowFatal(outcome) ==
    IF outcome = "data" THEN "hit"
    ELSE IF outcome \in {"throw", "bodyThrow"} THEN "fail"
    ELSE "miss"

\* variant: the downloaded object is never used
LookupResultNeverHit(outcome) == "miss"

\* the try block around the cache download: a result without error and with
\* data whose body can be read is a hit, everything else falls out of the block
LookupResult(outcome) == IF outcome = "data" THEN "hit" ELSE "miss"

\* supabase.storage.from(CACHE_BUCKET).download(cacheKey), and on a hit the response
CacheLookup(w) ==
    /\ pc[w] = "lookup"
    /\ \E outcome \in LookupOutcomes(cache, Val(cacheKey[w])) :
        LET cfg == Val(config[w])
            result == LookupResult(outcome)
        IN  /\ calls' = [calls EXCEPT ![w].lookup = @ + 1]
            /\ fault' = [fault EXCEPT ![w] =
                            @ \/ (outcome # "data" /\
                                    (outcome # "error" \/ Val(cacheKey[w]) \in DOMAIN cache))]
            /\ CASE result = "hit" ->
                        Return(w, imageResponse(cache[Val(cacheKey[w])],
                                    IF Truthy(cfg.format) THEN Val(cfg.format)
                                    ELSE inferFormatFromPath(cfg.path)))
                 [] result = "miss" ->
                        /\ pc' = [pc EXCEPT ![w] = "download"]
                        /\ UNCHANGED resp
                 [] OTHER -> Return(w, InternalError)
    /\ UNCHANGED <<secret, limits, cache, lastUp, received, req, nth, alone, config,
                   cacheKey, originBytes, transformed, dl, upl, pin, pout>>

\* variant: only originError is tested, and reading the body of no data throws
DownloadResultNoDataCheck(outcome) ==
    IF outcome.kind = "error" THEN "notFound"
    ELSE IF outcome.kind \in {"empty", "bodyThrow"} THEN "throw"
    ELSE "ok"

\* if (originError || !originData) return notFound; reading the body may throw
DownloadResult(outcome) ==
    IF outcome.kind \in {"error", "empty"} THEN "notFound"
    ELSE IF outcome.kind = "bodyThrow" THEN "throw"
    ELSE "ok"

\* supabase.storage.from(config.bucket).download(config.path)
OriginDownload(w) ==
    /\ pc[w] = "download"
    /\ \E outcome \in DownloadOutcomes :
        LET cfg == Val(config[w])
            result == DownloadResult(outcome)
        IN  /\ calls' = [calls EXCEPT ![w].download = @ + 1]
            /\ fault' = [fault EXCEPT ![w] = @ \/ outcome.kind # "data"]
            /\ dl' = [dl EXCEPT ![w] = outcome.kind]
            /\ CASE result = "ok" ->
                        /\ originBytes' = [originBytes EXCEPT ![w] =
                                Some(OriginObject(cfg.bucket, cfg.path, outcome.ver))]
                        /\ pc' = [pc EXCEPT ![w] = "transform"]
                        /\ UNCHANGED resp
                 [] result = "notFound" ->
                        /\ Return(w, NotFound)
                        /\ UNCHANGED originBytes
                 [] OTHER ->
                        /\ Return(w, InternalError)
                        /\ UNCHANGED originBytes
    /\ UNCHANGED <<secret, limits, cache, lastUp, received, req, nth, alone, config,
                   cacheKey, transformed, upl, pin, pout>>

\* await transformImage(originBytes, config, originalFormat): decoding or encoding
\* may throw, which the outer catch turns into a 500
Transform(w) ==
    /\ pc[w] = "transform"
    /\ \E ok \in BOOLEAN :
        LET cfg == Val(config[w])
        IN  /\ calls' = [calls EXCEPT ![w].transform = @ + 1]
            /\ fault' = [fault EXCEPT ![w] = @ \/ ~ok]
            /\ IF ok
               THEN /\ transformed' = [transformed EXCEPT ![w] =
                            Some(transformImage(Val(originBytes[w]), cfg,
                                                inferFormatFromPath(cfg.path)))]
                    /\ pc' = [pc EXCEPT ![w] = "upload"]
                    /\ UNCHANGED resp
               ELSE /\ Return(w, InternalError)
                    /\ UNCHANGED transformed
    /\ UNCHANGED <<secret, limits, cache, lastUp, received, req, nth, alone, config,
                   cacheKey, originBytes, dl, upl, pin, pout>>

\* variant: upsert is left out
UpsertOff == FALSE

\* upload(cacheKey, transformedData, { upsert: true, ... })
UpsertOption == TRUE

\* variant: the upload is outside the try block
UploadResultThrowFatal(outcome) == IF outcome = "throw" THEN "fail" ELSE "continue"

\* the try block around the upload: an error result and an exception are logged
UploadResult(outcome) == "continue"

\* supabase.storage.from(CACHE_BUCKET).upload(...), then the response
CacheUpload(w) ==
    /\ pc[w] = "upload"
    /\ \E outcome \in UploadOutcomes :
        LET out == Val(transformed[w])
            key == Val(cacheKey[w])
        IN  /\ calls' = [calls EXCEPT ![w].upload = @ + 1]
            /\ fault' = [fault EXCEPT ![w] = @ \/ outcome # "ok"]
            /\ upl' = [upl EXCEPT ![w] = outcome]
            /\ IF outcome = "ok"
               THEN /\ cache' = StorageUpload(cache, key, out.data, UpsertOption)
                    /\ lastUp' = StorageUpload(lastUp, key, out.data, TRUE)
               ELSE UNCHANGED <<cache, lastUp>>
            /\ IF UploadResult(outcome) = "continue"
               THEN Return(w, imageResponse(out.data, out.format))
               ELSE Return(w, InternalError)
    /\ UNCHANGED <<secret, limits, received, req, nth, alone, config, cacheKey,
                   originBytes, transformed, dl, pin, pout>>

Next ==
    \E w \in Workers :
        \/ Receive(w)
        \/ CheckSignature(w)
        \/ ParseParams(w)
        \/ CacheLookup(w)
        \/ OriginDownload(w)
        \/ Transform(w)
        \/ CacheUpload(w)

Spec == Init /\ [][Next]_vars

\* the steps of the handler after the request is received: each is the
\* continuation of an await
Step(w) ==
    \/ CheckSignature(w)
    \/ ParseParams(w)
    \/ CacheLookup(w)
    \/ OriginDownload(w)
    \/ Transform(w)
    \/ CacheUpload(w)

\* every awaited call settles, with a result or an exception, and the runtime
\* then resumes the handler
SpecFair == Spec /\ \A w \in Workers : WF_vars(Step(w))

----------------------------------------------------------------------------
(* buildCacheKey on pairs of configurations parseQueryParams can return *)

KeyPaths == {a_jpg, a_png}

KeyWidths == {None, Some(4)}

KeyHeights == {None, Some(3)}

KeyFormats == {None, Some(jpeg), Some(png)}

KeyQualities == {DefaultQuality, 90}

KeyBackgrounds == {None, Some(ffffff)}

KeyCrops == {center, top}

KeyConfigs(paths, noCaches) ==
    [bucket : {DefaultLimits.defaultBucket}, path : paths, width : KeyWidths,
     height : KeyHeights, fit : FitMode, format : KeyFormats, quality : KeyQualities,
     background : KeyBackgrounds, crop : KeyCrops, noCache : noCaches]

InitKey ==
    /\ secret = None
    /\ limits = DefaultLimits
    /\ cache = [k \in {} |-> None]
    /\ lastUp = [k \in {} |-> None]
    /\ received = 0
    /\ pc = [w \in Workers |-> "idle"]
    /\ req = [w \in Workers |-> None]
    /\ nth = [w \in Workers |-> 0]
    /\ alone = [w \in Workers |-> TRUE]
    /\ config = [w \in Workers |-> None]
    /\ cacheKey = [w \in Workers |-> None]
    /\ originBytes = [w \in Workers |-> None]
    /\ transformed = [w \in Workers |-> None]
    /\ calls = [w \in Workers |-> NoCalls]
    /\ fault = [w \in Workers |-> FALSE]
    /\ dl = [w \in Workers |-> "none"]
    /\ upl = [w \in Workers |-> "none"]
    /\ resp = [w \in Workers |-> None]
    /\ pin \in KeyConfigs(KeyPaths, {FALSE})
    /\ pout = None

\* the keys of the configuration drawn and of a second one for the same path
ApplyBuildCacheKey ==
    /\ pout = None
    /\ \E c2 \in KeyConfigs({pin.path}, {TRUE}) :
        pout' = Some([c1 |-> pin, c2 |-> c2,
                      k1 |-> buildCacheKey(pin), k2 |-> buildCacheKey(c2)])
    /\ UNCHANGED <<handlerVars, pin>>

NextKey == ApplyBuildCacheKey

SpecKey == InitKey /\ [][NextKey]_vars

----------------------------------------------------------------------------
(* Properties of the request handler *)

Done(w) == pc[w] = "done"

Status(w) == Val(resp[w]).status

SearchParams(w) == Val(req[w]).searchParams

StorageCalls(w) == calls[w].lookup + calls[w].download + calls[w].upload

\* the request carries the lower-case hex HMAC-SHA256, keyed by sec, of its
\* parameters without the token, in received order
TokenMatches(sp, sec) ==
    /\ IsSome(Get(sp, "token"))
    /\ Val(Get(sp, "token")) = HexLower(HmacSha256(sec, ParamsToString(Delete(sp, "token"))))

\* no signing secret is configured, or the token matches
GateOpen(w) == ~IsSome(secret) \/ TokenMatches(SearchParams(w), Val(secret))

ParamsValid(w) == parseQueryParams(SearchParams(w), limits).ok

PastSignature(w) == pc[w] \notin {"idle", "signature"} /\ Val(req[w]).method = "GET"

PastValidation(w) == PastSignature(w) /\ pc[w] # "validate"

\* C1: a request that has made a storage call, or is about to, has passed the
\* signature check and the validation; a request failing either has ended
\* with 403 or 400 without any storage call or transform.
C1_NoStorageBeforeChecks ==
    \A w \in Workers :
        /\ (StorageCalls(w) > 0 \/ pc[w] \in {"lookup", "download", "transform", "upload"})
            => (Val(req[w]).method = "GET" /\ GateOpen(w) /\ ParamsValid(w))
        /\ (PastSignature(w) /\ ~GateOpen(w))
            => (Done(w) /\ Status(w) = 403 /\ StorageCalls(w) = 0 /\ calls[w].transform = 0)
        /\ (PastValidation(w) /\ GateOpen(w) /\ ~ParamsValid(w))
            => (Done(w) /\ Status(w) = 400 /\ StorageCalls(w) = 0 /\ calls[w].transform = 0)

C1_Witness ==
    \E w, v \in Workers :
        /\ Done(w) /\ Status(w) = 403 /\ ParamsValid(w)
        /\ Done(v) /\ Status(v) = 400 /\ IsSome(secret) /\ GateOpen(v)

\* C2: once the origin download and the transform have succeeded, the request
\* ends with a 200 response carrying the transformed bytes, whatever the
\* upload call did.
C2_UploadFailureNonFatal ==
    \A w \in Workers :
        (Done(w) /\ IsSome(originBytes[w]) /\ IsSome(transformed[w]))
            => /\ upl[w] \in UploadOutcomes
               /\ resp[w] = Some([status |-> 200,
                                  body |-> Some(Val(transformed[w]).data),
                                  contentType |-> getMimeType(Val(transformed[w]).format)])

C2_Witness ==
    \E w, v \in Workers :
        /\ Done(w) /\ upl[w] = "throw" /\ Status(w) = 200
        /\ Done(v) /\ upl[v] = "error" /\ Status(v) = 200

\* C3: a request that made the cache lookup and no origin download was answered
\* from the cache by a lookup that succeeded; after any other lookup outcome the
\* request is on the miss path, and an error response comes from a later stage.
C3_LookupFailureIsMiss ==
    \A w \in Workers :
        /\ (calls[w].lookup = 1 /\ calls[w].download = 0 /\ pc[w] # "download")
            => (Done(w) /\ Status(w) = 200 /\ ~fault[w] /\ Val(cacheKey[w]) \in DOMAIN cache)
        /\ (calls[w].lookup = 1 /\ fault[w])
            => (pc[w] = "download" \/ calls[w].download = 1)
        /\ (calls[w].lookup = 1 /\ Done(w) /\ Status(w) # 200) => calls[w].download = 1

C3_Witness ==
    \E w \in Workers :
        /\ calls[w].lookup = 1 /\ fault[w] /\ pc[w] = "download"
        /\ Val(cacheKey[w]) \in DOMAIN cache

\* C4: after an origin download that returned an error or no data the request
\* has ended with 404, having made one download call, no transform and no upload.
C4_DownloadFailure404 ==
    \A w \in Workers :
        dl[w] \in {"error", "empty"}
            => /\ Done(w) /\ Status(w) = 404
               /\ calls[w].download = 1 /\ calls[w].transform = 0 /\ calls[w].upload = 0
               /\ originBytes[w] = None /\ transformed[w] = None

C4_Witness ==
    \E w, v \in Workers : dl[w] = "error" /\ dl[v] = "empty" /\ Done(w) /\ Done(v)

\* the first two requests, served one after the other, without any failure
FirstThenSecond(a, b) ==
    /\ nth[a] = 1 /\ nth[b] = 2 /\ alone[a] /\ alone[b]
    /\ Done(a) /\ Done(b)
    /\ ~fault[a] /\ ~fault[b]

\* C5: of two identical valid requests without no_cache served one after the
\* other from an empty cache with nothing failing, the first makes one lookup,
\* one download, one transform and one upload, which stores its output under
\* buildCacheKey(config); the second makes the lookup only and returns the
\* same response.
C5_SecondServedFromCache ==
    \A a, b \in Workers :
        (/\ FirstThenSecond(a, b)
         /\ req[a] = req[b]
         /\ PastValidation(a) /\ GateOpen(a) /\ ParamsValid(a)
         /\ ~parseQueryParams(SearchParams(a), limits).v.noCache)
            => LET key == buildCacheKey(parseQueryParams(SearchParams(a), limits).v)
               IN  /\ calls[a] = [lookup |-> 1, download |-> 1, transform |-> 1, upload |-> 1]
                   /\ Status(a) = 200
                   /\ key \in DOMAIN cache
                   /\ Some(cache[key]) = Val(resp[a]).body
                   /\ calls[b] = [lookup |-> 1, download |-> 0, transform |-> 0, upload |-> 0]
                   /\ resp[b] = resp[a]

C5_Witness ==
    \E a, b \in Workers :
        /\ FirstThenSecond(a, b)
        /\ req[a] = req[b]
        /\ IsSome(config[a]) /\ ~Val(config[a]).noCache
        /\ calls[b].lookup = 1 /\ Status(b) = 200

\* C6: a request with no_cache=1 never makes the cache lookup; its first storage
\* call is the origin download, a 200 response comes after one download, one
\* transform and one upload, and an upload the storage served leaves its
\* output under its key until a later upload replaces it.
C6_NoCacheBypass ==
    \A w \in Workers :
        (IsSome(config[w]) /\ Val(config[w]).noCache)
            => /\ calls[w].lookup = 0 /\ pc[w] # "lookup"
               /\ (pc[w] = "download" \/ calls[w].download = 1)
               /\ (Done(w) /\ Status(w) = 200)
                    => calls[w] = [lookup |-> 0, download |-> 1, transform |-> 1, upload |-> 1]
               /\ (dl[w] = "data" /\ IsSome(transformed[w])) => pc[w] = "upload" \/ upl[w] # "none"
               /\ (upl[w] = "ok" /\ lastUp[Val(cacheKey[w])] = Val(transformed[w]).data)
                    => cache[Val(cacheKey[w])] = Val(transformed[w]).data

C6_Witness ==
    \E w, v \in Workers :
        /\ IsSome(config[w]) /\ Val(config[w]).noCache /\ Done(w) /\ upl[w] = "ok"
        /\ nth[v] < nth[w] /\ alone[w] /\ upl[v] = "ok"
        /\ cacheKey[v] = cacheKey[w]
        /\ transformed[v] # transformed[w]
        /\ cache[Val(cacheKey[w])] = Val(transformed[w]).data

\* C7: the first two requests, with the same configuration, in any interleaving:
\* each one that did not fail in the download or the transform returns 200 with
\* the transform output of the origin bytes it downloaded, or, answered from the
\* cache, with the output the other one uploaded; and every cache entry is the
\* data of the last upload served under its key.
C7_ConcurrentSameKey ==
    /\ \A k \in DOMAIN lastUp : k \in DOMAIN cache /\ cache[k] = lastUp[k]
    /\ \A a, b \in Workers :
        (/\ a # b /\ {nth[a], nth[b]} = {1, 2}
         /\ IsSome(config[a]) /\ config[a] = config[b]
         /\ Done(a)
         /\ calls[a].download = 0 \/ IsSome(transformed[a]))
            => /\ Status(a) = 200
               /\ Val(resp[a]).body =
                    IF calls[a].download = 1
                    THEN Some(transformImage(Val(originBytes[a]), Val(config[a]),
                                inferFormatFromPath(Val(config[a]).path)).data)
                    ELSE Some(Val(transformed[b]).data)

C7_Witness ==
    \E a, b \in Workers :
        /\ a # b /\ config[a] = config[b] /\ IsSome(config[a])
        /\ ~alone[a] /\ ~alone[b] /\ Done(a) /\ Done(b)
        /\ calls[a].lookup = 1 /\ calls[b].lookup = 1
        /\ upl[a] = "ok" /\ upl[b] = "ok"
        /\ transformed[a] # transformed[b]
        /\ Status(a) = 200 /\ Status(b) = 200
        /\ Val(resp[a]).body # Val(resp[b]).body

\* C10: a GET request gets past the signature check exactly when no secret is
\* configured or its token is the hex HMAC-SHA256 of its other parameters; every
\* other request is answered 403.
C10_SignatureGate ==
    \A w \in Workers :
        PastSignature(w) => ((Done(w) /\ Status(w) = 403) <=> ~GateOpen(w))

C10_Witness ==
    \E w, v \in Workers :
        /\ IsSome(secret)
        /\ IsSome(req[w]) /\ SearchParams(w) = S1 /\ calls[w].lookup = 1
        /\ IsSome(req[v]) /\ SearchParams(v) = S3 /\ Done(v) /\ Status(v) = 403

\* the stages of the request of w that can fail, as the state records them
MethodFailed(w) == Val(req[w]).method # "GET"

DownloadFailed(w) == dl[w] \in {"error", "empty"}

BodyReadFailed(w) == dl[w] = "bodyThrow"

TransformFailed(w) == calls[w].transform = 1 /\ transformed[w] = None

\* the status of the first failing stage in the order method, signature,
\* validation, origin download, body read, transform, and 200 without one
StatusByFirstFailure(w) ==
    IF MethodFailed(w) THEN 405
    ELSE IF ~GateOpen(w) THEN 403
    ELSE IF ~ParamsValid(w) THEN 400
    ELSE IF DownloadFailed(w) THEN 404
    ELSE IF BodyReadFailed(w) \/ TransformFailed(w) THEN 500
    ELSE 200

\* the same with every origin download that delivered no bytes counted as a
\* download failure
StatusByFirstFailureClaimed(w) ==
    IF MethodFailed(w) THEN 405
    ELSE IF ~GateOpen(w) THEN 403
    ELSE IF ~ParamsValid(w) THEN 400
    ELSE IF DownloadFailed(w) \/ BodyReadFailed(w) THEN 404
    ELSE IF TransformFailed(w) THEN 500
    ELSE 200

\* C18 as claimed: the status of a finished request is 405, 403, 400, 404 or
\* 500 after the first failing stage in the order method, signature,
\* validation, origin download, transform, and 200 otherwise.
C18_StatusAsClaimed ==
    \A w \in Workers : Done(w) => Status(w) = StatusByFirstFailureClaimed(w)

\* C18: the status of a finished request is that of the first failing stage,
\* where an exception while the downloaded origin body is read counts as an
\* unexpected failure with 500; a non-GET request has made no storage call;
\* what the cache lookup and the cache upload did has no part in the status.
C18_StatusByFirstFailure ==
    \A w \in Workers :
        Done(w) =>
            /\ Status(w) = StatusByFirstFailure(w)
            /\ MethodFailed(w) => StorageCalls(w) = 0 /\ calls[w].transform = 0

\* a POST that fails the signature check and the validation got 405, and a
\* GET whose cache lookup failed and whose transform threw got 500
C18_Witness ==
    \E w, v \in Workers :
        /\ IsSome(secret)
        /\ Done(w) /\ MethodFailed(w) /\ ~GateOpen(w) /\ ~ParamsValid(w)
        /\ Status(w) = 405
        /\ Done(v) /\ calls[v].lookup = 1 /\ TransformFailed(v)
        /\ Status(v) = 500

\* a request in progress has no response yet, a finished one has one, and no
\* step of it was made twice
OneResponseNoRetry ==
    \A w \in Workers :
        /\ IsSome(resp[w]) <=> Done(w)
        /\ calls[w].lookup <= 1 /\ calls[w].download <= 1
        /\ calls[w].transform <= 1 /\ calls[w].upload <= 1

\* C19: every request that is received ends with a response, which it has
\* only once it has ended; during one request the cache lookup, the origin
\* download, the transform and the cache upload are each made at most once.
C19_TerminatesNoRetry ==
    /\ []OneResponseNoRetry
    /\ \A w \in Workers : (pc[w] = "signature") ~> Done(w)

\* a request ended with 404 after one failed lookup and one failed download,
\* another with 200 after one call of each kind, its upload having thrown
C19_Witness ==
    \E w, v \in Workers :
        /\ Done(w) /\ Status(w) = 404
        /\ calls[w] = [lookup |-> 1, download |-> 1, transform |-> 0, upload |-> 0]
        /\ Done(v) /\ Status(v) = 200 /\ upl[v] = "throw"
        /\ calls[v] = [lookup |-> 1, download |-> 1, transform |-> 1, upload |-> 1]

\* the request of w was answered from the cache
CacheHit(w) ==
    /\ Done(w) /\ Status(w) = 200
    /\ calls[w].lookup = 1 /\ calls[w].download = 0

\* C20: the bytes a cache hit returns were made by transforming the origin
\* object that the configuration of the request names by its bucket and path,
\* with the parameters of that configuration.
C20_HitServesOwnObject ==
    \A w \in Workers :
        CacheHit(w) =>
            LET cfg == Val(config[w])
                body == Val(Val(resp[w]).body)
            IN  \E ver \in OriginVersions :
                    body = transformImage(OriginObject(cfg.bucket, cfg.path, ver), cfg,
                                          inferFormatFromPath(cfg.path)).data

\* this step is the upload of w: its origin download and its transform have
\* succeeded, it ends with 200, and the only entry written is the transformed
\* image under the key derived from the configuration of w
CacheWrittenBy(w) ==
    /\ pc[w] = "upload" /\ pc'[w] = "done"
    /\ Val(resp'[w]).status = 200
    /\ dl[w] = "data" /\ IsSome(originBytes[w]) /\ IsSome(transformed[w])
    /\ cacheKey[w] = Some(buildCacheKey(Val(config[w])))
    /\ DOMAIN cache \subseteq DOMAIN cache'
    /\ \A k \in DOMAIN cache' :
          (k \notin DOMAIN cache \/ cache'[k] # cache[k])
              => (k = Val(cacheKey[w]) /\ cache'[k] = Val(transformed[w]).data)

\* a finished request that failed or was answered from the cache made no upload
NoUploadWithoutResult ==
    \A w \in Workers :
        (Done(w) /\ (Status(w) \in {400, 403, 404, 405, 500} \/ CacheHit(w)))
            => (calls[w].upload = 0 /\ upl[w] = "none")

\* C21: the cache changes only in the upload step of a request whose origin
\* download and transform succeeded, and then only under the cache key derived
\* from that request; a request that ended with 400, 403, 404, 405 or 500, or
\* that was answered from the cache, has made no upload.
C21_CacheWrittenByOwner ==
    /\ []NoUploadWithoutResult
    /\ [][cache' # cache => \E w \in Workers : CacheWrittenBy(w)]_vars

\* one request stored its image, the other found the lookup failing and then
\* its transform threw: the cache holds the one entry of the first
C21_Witness ==
    \E w, v \in Workers :
        /\ Done(w) /\ upl[w] = "ok"
        /\ DOMAIN cache = {Val(cacheKey[w])}
        /\ cache[Val(cacheKey[w])] = Val(transformed[w]).data
        /\ Done(v) /\ Status(v) = 500 /\ TransformFailed(v)

----------------------------------------------------------------------------
(* Properties of buildCacheKey *)

\* the values the transform works with: the format is the output format
Resolved(c) ==
    [width |-> c.width, height |-> c.height, fit |-> c.fit,
     format |-> IF Truthy(c.format) THEN Val(c.format) ELSE inferFormatFromPath(c.path),
     quality |-> c.quality, background |-> c.background, crop |-> c.crop]

\* what the transform makes of the same origin object under this configuration
OutputOf(c) ==
    transformImage(OriginObject(c.bucket, c.path, 1), c, inferFormatFromPath(c.path))

\* C8: two configurations for the same path that differ in a resolved field
\* have different cache keys; stated for the pairs the transform treats
\* differently, where one key for both serves the wrong image.
C8_DistinctKeys ==
    IsSome(pout) =>
        ((/\ Resolved(Val(pout).c1) # Resolved(Val(pout).c2)
          /\ OutputOf(Val(pout).c1) # OutputOf(Val(pout).c2))
            => Val(pout).k1 # Val(pout).k2)

\* C9: two different configurations for the same path whose resolved fields
\* are equal have the same cache key.
C9_EqualKeys ==
    IsSome(pout) =>
        ((/\ Val(pout).c1 # Val(pout).c2
          /\ Val(pout).c1.path = Val(pout).c2.path
          /\ Resolved(Val(pout).c1) = Resolved(Val(pout).c2))
            => Val(pout).k1 = Val(pout).k2)

C9_Witness ==
    /\ IsSome(pout)
    /\ Resolved(Val(pout).c1) = Resolved(Val(pout).c2)
    /\ Val(pout).c1.format = None /\ IsSome(Val(pout).c2.format)
    /\ Val(pout).c1.noCache # Val(pout).c2.noCache
    /\ Val(pout).k1 = Val(pout).k2

----------------------------------------------------------------------------
(* transformImage on decoded rasters of every small size *)

MaxNatural == 6

MaxTarget == 5

\* the natural sizes: every small raster, the README's landscape and portrait,
\* and a strip one pixel high
NaturalSizes ==
    ((1..MaxNatural) \X (1..MaxNatural)) \cup {<<1000, 800>>, <<800, 1000>>, <<1000, 1>>}

\* a requested dimension as parseIntParam returns it
TargetDims == {None} \cup {Some(n) : n \in (1..MaxTarget) \cup {10, 400}}

\* the bytes of an image whose header gives this size
RasterOf(size) == [width |-> size[1], height |-> size[2]]

\* the fields of a TransformConfig that transformImage reads
DimConfig(width, height, fit, crop, background) ==
    [width |-> width, height |-> height, fit |-> fit, crop |-> crop,
     background |-> background, format |-> None, quality |-> DefaultQuality]

InitDim ==
    /\ secret = None
    /\ limits = DefaultLimits
    /\ cache = [k \in {} |-> None]
    /\ lastUp = [k \in {} |-> None]
    /\ received = 0
    /\ pc = [w \in Workers |-> "idle"]
    /\ req = [w \in Workers |-> None]
    /\ nth = [w \in Workers |-> 0]
    /\ alone = [w \in Workers |-> TRUE]
    /\ config = [w \in Workers |-> None]
    /\ cacheKey = [w \in Workers |-> None]
    /\ originBytes = [w \in Workers |-> None]
    /\ transformed = [w \in Workers |-> None]
    /\ calls = [w \in Workers |-> NoCalls]
    /\ fault = [w \in Workers |-> FALSE]
    /\ dl = [w \in Workers |-> "none"]
    /\ upl = [w \in Workers |-> "none"]
    /\ resp = [w \in Workers |-> None]
    /\ pin \in [size : NaturalSizes, width : TargetDims, height : TargetDims, fit : FitMode]
    /\ pout = None

\* transformImage on the raster drawn, for a crop anchor and a background; the
\* result of its calculateDimensions call is kept beside the encoded raster
ApplyTransformImage ==
    /\ pout = None
    /\ \E crop \in CropPosition, background \in {None, Some(ffffff)} :
        LET cfg == DimConfig(pin.width, pin.height, pin.fit, crop, background)
        IN  pout' = Some([cfg |-> cfg,
                          dim |-> calculateDimensions(pin.size[1], pin.size[2],
                                                      pin.width, pin.height, pin.fit),
                          out |-> transformImage(RasterOf(pin.size), cfg, jpeg)])
    /\ UNCHANGED <<handlerVars, pin>>

NextDim == ApplyTransformImage

SpecDim == InitDim /\ [][NextDim]_vars

----------------------------------------------------------------------------
(* Properties of the geometry *)

\* transformImage has run with both dimensions requested and this fit
Transformed(fits) ==
    /\ IsSome(pout)
    /\ Val(pout).cfg.fit \in fits
    /\ IsSome(Val(pout).cfg.width) /\ IsSome(Val(pout).cfg.height)

\* the raster handed to the encoder
Encoded == Val(pout).out.data.image

\* C11: with fit=cover and both dimensions requested, calculateDimensions asks
\* for a crop and gives a size of at least the requested width and height; the
\* crop, for every anchor, starts at x >= 0 and y >= 0, lies inside the resized
\* raster, and leaves exactly the requested width and height.
C11_CoverCrop ==
    Transformed({cover}) =>
        LET tw == Val(Val(pout).cfg.width)
            th == Val(Val(pout).cfg.height)
            dim == Val(pout).dim
        IN  /\ dim.shouldCrop
            /\ dim.width >= tw /\ dim.height >= th
            /\ Encoded.width = tw /\ Encoded.height = th
            /\ IsSome(Encoded.cropAt) =>
                  /\ Val(Encoded.cropAt)[1] >= 0
                  /\ Val(Encoded.cropAt)[2] >= 0
                  /\ Val(Encoded.cropAt)[1] + tw <= dim.width
                  /\ Val(Encoded.cropAt)[2] + th <= dim.height

\* 1000x800 with w=400, h=400, anchored right: resized to 500x400, cut at x = 100
C11_Witness ==
    /\ Transformed({cover})
    /\ pin.size = <<1000, 800>>
    /\ Val(pout).cfg.width = Some(400) /\ Val(pout).cfg.height = Some(400)
    /\ Val(pout).cfg.crop = right
    /\ Val(pout).dim = [width |-> 500, height |-> 400, shouldCrop |-> TRUE]
    /\ Encoded.cropAt = Some(<<100, 0>>)
    /\ Encoded.width = 400 /\ Encoded.height = 400

\* C22: for a natural size of at least one pixel each way and requested
\* dimensions that are absent or at least 1, calculateDimensions gives a width
\* and a height of at least 1, whatever the fit.
C22_DimensionsPositive ==
    (/\ IsSome(pout)
     /\ pin.size[1] >= 1 /\ pin.size[2] >= 1
     /\ IsSome(pin.width) => Val(pin.width) >= 1
     /\ IsSome(pin.height) => Val(pin.height) >= 1)
        => (Val(pout).dim.width >= 1 /\ Val(pout).dim.height >= 1)

\* n is an integer nearest to p / q, for q > 0
Nearest(n, p, q) ==
    /\ 2 * (n * q - p) <= q
    /\ 2 * (p - n * q) <= q

\* C12: with fit=contain and both dimensions requested, calculateDimensions
\* asks for no crop and gives a size inside the requested box, one axis equal
\* to the requested value and the other the nearest integer to that value
\* scaled by the natural aspect ratio.
C12_ContainFits ==
    Transformed({contain}) =>
        LET tw == Val(Val(pout).cfg.width)
            th == Val(Val(pout).cfg.height)
            ow == pin.size[1]
            oh == pin.size[2]
            dim == Val(pout).dim
        IN  /\ ~dim.shouldCrop
            /\ dim.width <= tw /\ dim.height <= th
            /\ \/ dim.width = tw /\ Nearest(dim.height, tw * oh, ow)
               \/ dim.height = th /\ Nearest(dim.width, th * ow, oh)

\* 1000x800 with w=400, h=400 gives 400x320
C12_Witness ==
    /\ Transformed({contain})
    /\ pin.size = <<1000, 800>>
    /\ Val(pout).cfg.width = Some(400) /\ Val(pout).cfg.height = Some(400)
    /\ Val(pout).dim = [width |-> 400, height |-> 320, shouldCrop |-> FALSE]

\* C16: with fit contain or fill, a background and both dimensions requested,
\* the raster handed to the encoder has the requested width and height and is
\* opaque in the background colour around the image (for a resized image of
\* at least one pixel each way).
C16_CanvasOfTargetSize ==
    (/\ Transformed({contain, fill}) /\ Truthy(Val(pout).cfg.background)
     /\ Val(pout).dim.width >= 1 /\ Val(pout).dim.height >= 1) =>
        /\ Encoded.bg = Val(pout).cfg.background
        /\ Encoded.width = Val(Val(pout).cfg.width)
        /\ Encoded.height = Val(Val(pout).cfg.height)

----------------------------------------------------------------------------
(* The validation step of the handler on raw query strings *)

MaxPathLen == 4

MaxRawLen == 3

\* the strings of at most n characters over an alphabet
Strings(alphabet, n) == UNION {[1..k -> alphabet] : k \in 0..n}

products_shoe_jpg ==
    <<"p", "r", "o", "d", "u", "c", "t", "s", "/", "s", "h", "o", "e", ".", "j", "p", "g">>

abs_path == <<"/", "a", "b", "s", "/", "p", "a", "t", "h">>

etc_passwd ==
    <<".", ".", "/", ".", ".", "/", "e", "t", "c", "/", "p", "a", "s", "s", "w", "d">>

RawPaths ==
    Strings({"/", ".", "a", " "}, MaxPathLen) \cup {products_shoe_jpg, abs_path, etc_passwd}

RawInts ==
    Strings({"0", "1", "a", "-"}, MaxRawLen)
    \cup {<<"1", "2", "a", "b", "c">>, <<"1", "0", "0">>, <<"1", "0", "1">>,
          <<"2", "0", "0", "0">>, <<"2", "0", "0", "1">>, <<" ", "7">>, <<"1", ".", "5">>}

IntParams == {"w", "h", "q"}

\* path=<raw>, and path=a.jpg&<w|h|q>=<raw>
RawQueries ==
    {<< <<"path", raw>> >> : raw \in RawPaths}
    \cup {<< <<"path", a_jpg>>, <<name, raw>> >> : name \in IntParams, raw \in RawInts}

\* a GET request of an unsigned deployment has reached the validation
InitValidate ==
    /\ secret = None
    /\ limits = DefaultLimits
    /\ cache = [k \in {} |-> None]
    /\ lastUp = [k \in {} |-> None]
    /\ received = 1
    /\ pc = [w \in Workers |-> IF w = 1 THEN "validate" ELSE "idle"]
    /\ \E sp \in RawQueries :
        req = [w \in Workers |->
                  IF w = 1 THEN Some([method |-> "GET", searchParams |-> sp]) ELSE None]
    /\ nth = [w \in Workers |-> IF w = 1 THEN 1 ELSE 0]
    /\ alone = [w \in Workers |-> TRUE]
    /\ config = [w \in Workers |-> None]
    /\ cacheKey = [w \in Workers |-> None]
    /\ originBytes = [w \in Workers |-> None]
    /\ transformed = [w \in Workers |-> None]
    /\ calls = [w \in Workers |-> NoCalls]
    /\ fault = [w \in Workers |-> FALSE]
    /\ dl = [w \in Workers |-> "none"]
    /\ upl = [w \in Workers |-> "none"]
    /\ resp = [w \in Workers |-> None]
    /\ pin = None
    /\ pout = None

NextValidate == \E w \in Workers : ParseParams(w)

SpecValidate == InitValidate /\ [][NextValidate]_vars

----------------------------------------------------------------------------
(* Properties of the validation *)

\* the validation of the request of w is over
Validated(w) == IsSome(req[w]) /\ PastValidation(w)

Rejected(w) == Done(w) /\ Status(w) = 400

\* the raw value of a query parameter of the request of w
Raw(w, name) == Get(SearchParams(w), name)

\* s has a segment "..": two dots between slashes or the ends of the string
HasDotDotSegment(s) ==
    \E i \in 1..(Len(s) - 1) :
        /\ s[i] = "." /\ s[i + 1] = "."
        /\ i = 1 \/ s[i - 1] = "/"
        /\ i + 1 = Len(s) \/ s[i + 2] = "/"

\* C13: a raw path that starts with '/', has a '..' segment or is empty is
\* rejected, and the clean relative path products/shoe.jpg is returned unchanged.
C13_RejectsUncleanPaths ==
    \A w \in Workers :
        (Validated(w) /\ IsSome(Raw(w, "path"))) =>
            LET raw == Val(Raw(w, "path"))
            IN  /\ (\/ raw = <<>>
                    \/ raw # <<>> /\ Head(raw) = "/"
                    \/ HasDotDotSegment(raw)) => Rejected(w)
                /\ raw = products_shoe_jpg =>
                      IsSome(config[w]) /\ Val(config[w]).path = raw

\* C14: the path of every configuration parseQueryParams returns, which is the
\* path of the origin download and of the cache key, has no '..' segment, does
\* not start with '/', and has a character other than '/'.
C14_ConfigPathClean ==
    \A w \in Workers :
        IsSome(config[w]) =>
            LET path == Val(config[w]).path
            IN  /\ ~HasDotDotSegment(path)
                /\ path # <<>> /\ Head(path) # "/"
                /\ \E i \in 1..Len(path) : path[i] # "/"

\* the raw path "/a/" was accepted as "a"
C14_Witness ==
    /\ Validated(1)
    /\ Raw(1, "path") = Some(<<"/", "a", "/">>)
    /\ IsSome(config[1])
    /\ Val(config[1]).path = <<"a">>

\* s is entirely a base-10 integer: digits after an optional sign
IsBase10Integer(s) ==
    LET digits == IF s # <<>> /\ Head(s) \in {"-", "+"} THEN Tail(s) ELSE s
    IN  digits # <<>> /\ \A i \in 1..Len(digits) : IsDigit(digits[i])

\* the value of a string that is entirely a base-10 integer
IntegerValue(s) ==
    IF Head(s) = "-" THEN 0 - DigitsValue(Tail(s), 0)
    ELSE IF Head(s) = "+" THEN DigitsValue(Tail(s), 0)
    ELSE DigitsValue(s, 0)

\* the declared range of w, h and q
DeclaredMax(name) ==
    IF name = "w" THEN limits.maxWidth
    ELSE IF name = "h" THEN limits.maxHeight
    ELSE 100

\* C15: a request in which w, h or q has a non-empty raw value that is not
\* entirely a base-10 integer, or is an integer outside the declared range of
\* the parameter, fails the validation and is answered with 400.
C15_BadIntegerRejected ==
    \A w \in Workers : \A name \in IntParams :
        (Validated(w) /\ Truthy(Raw(w, name))) =>
            LET raw == Val(Raw(w, name))
            IN  (\/ ~IsBase10Integer(raw)
                 \/ IsBase10Integer(raw)
                    /\ (IntegerValue(raw) < 1 \/ IntegerValue(raw) > DeclaredMax(name)))
                    => Rejected(w)

----------------------------------------------------------------------------
(* The validation step under every configured default quality *)

\* values of DEFAULT_QUALITY
ConfiguredQualities == {1, 50, 80, 90, 100}

\* path=a.jpg, and path=a.jpg&q=<n>
QualityQueries ==
    {<< <<"path", a_jpg>> >>}
    \cup {<< <<"path", a_jpg>>, <<"q", ToDec(n)>> >> : n \in 1..100}

InitQuality ==
    /\ secret = None
    /\ limits \in {[DefaultLimits EXCEPT !.defaultQuality = d] : d \in ConfiguredQualities}
    /\ cache = [k \in {} |-> None]
    /\ lastUp = [k \in {} |-> None]
    /\ received = 1
    /\ pc = [w \in Workers |-> IF w = 1 THEN "validate" ELSE "idle"]
    /\ \E sp \in QualityQueries :
        req = [w \in Workers |->
                  IF w = 1 THEN Some([method |-> "GET", searchParams |-> sp]) ELSE None]
    /\ nth = [w \in Workers |-> IF w = 1 THEN 1 ELSE 0]
    /\ alone = [w \in Workers |-> TRUE]
    /\ config = [w \in Workers |-> None]
    /\ cacheKey = [w \in Workers |-> None]
    /\ originBytes = [w \in Workers |-> None]
    /\ transformed = [w \in Workers |-> None]
    /\ calls = [w \in Workers |-> NoCalls]
    /\ fault = [w \in Workers |-> FALSE]
    /\ dl = [w \in Workers |-> "none"]
    /\ upl = [w \in Workers |-> "none"]
    /\ resp = [w \in Workers |-> None]
    /\ pin = None
    /\ pout = None

SpecQuality == InitQuality /\ [][NextValidate]_vars

\* the key has a quality component
HasQualityPart(key) == Includes(key, <<"_", "_", "q", "=">>)

\* C17: the cache key has a q=<quality> component exactly when the quality of
\* the configuration differs from the configured default quality, whatever
\* that default is; without q and with q equal to the default there is none.
C17_QualityPartIffNotDefault ==
    \A w \in Workers :
        (IsSome(config[w]) /\ IsSome(cacheKey[w])) =>
            (HasQualityPart(Val(cacheKey[w]))
                <=> Val(config[w]).quality # limits.defaultQuality)

====
